---- MODULE Spec2Model ----
(***************************************************************************)
(* news_bot.py: the curation-and-delivery pipeline of NewsBot.              *)
(*                                                                         *)
(* Spec          the process: __init__ (load_state), run (header, collect, *)
(*               select, per-item delivery, footer, save_state, report),   *)
(*               and the next start of the process on the same feeds.      *)
(* SpecSelect    select_top_by_quota as a function of a ranked pool.       *)
(* SpecTranslate translate_force_es as a function of the text and of what  *)
(*               the three providers answer.                               *)
(* SpecStore     the process with any state file at its start, stopped at  *)
(*               any point of run, save_state included.                    *)
(* SpecRank      rank_with_gemini and select_top_by_quota on the pool      *)
(*               collected from the feeds, for the answers of the scorer.  *)
(* SpecCaption   the caption of an item and what send_with_link posts.     *)
(* SpecChunk     the loop of chunk_text, iteration by iteration.           *)
(*                                                                         *)
(* Scores are kept in tenths (1.0 is 10), texts are sequences of           *)
(* one-character strings, fingerprints are the string article_uid hashes   *)
(* (sha256 is taken as injective on the texts of the model).               *)
(***************************************************************************)
EXTENDS Integers, Sequences, FiniteSets, TLC

VARIABLES
    only_tech,      \* NewsBot.only_tech
    only_medicine,  \* NewsBot.only_medicine
    creds,          \* TELEGRAM_BOT_TOKEN and TELEGRAM_CHAT_ID are both non-empty
    gemini,         \* NewsBot.model is not None
    feeds,          \* what feedparser.parse returns for each feed: its entries
    file,           \* state_sent.json: [kind, ids]
    runNo,          \* which start of the process this is
    pc,             \* position of the process in main / run
    sent_ids,       \* NewsBot.sent_ids
    processed,      \* NewsBot.processed
    all_articles,   \* what collect_all returned
    selected,       \* what select_top_by_quota returned
    ci,             \* index of `cat` in categories_order (run's outer loop)
    ai,             \* index of `a` in cat_articles (run's inner loop)
    log,            \* the calls of send_text / send_photo of this run, in order
    calls,          \* the transport calls of send_with_link in the step just taken
    confirmed,      \* fingerprints whose delivery the transport confirmed (r.ok)
    loaded,         \* what load_state returned at the start of this run
    savedArg,       \* the argument of save_state in this run: [called, ids]
    exc,            \* the exception that escaped run, "none" if none
    prev,           \* summary of the previous run of the process
    ranked,         \* SpecSelect: the ranked pool given to the selection
    selOut,         \* SpecSelect: the selection, before and after the backfill
    tr,             \* SpecTranslate: text, providers' answers, result
    startFile,      \* state_sent.json as it was when the process started
    scores,         \* SpecRank: what the AI scorer answers
    cap,            \* SpecCaption: the texts of an item and the messages sent
    chunk           \* SpecChunk: chunk_text's text, limit, t and parts

vars == <<only_tech, only_medicine, creds, gemini, feeds, file, runNo, pc,
          sent_ids, processed, all_articles, selected, ci, ai, log, calls,
          confirmed, loaded, savedArg, exc, prev, ranked, selOut, tr,
          startFile, scores, cap, chunk>>

-----------------------------------------------------------------------------
(* Bounds of the model.                                                    *)

\* total number of entries the feeds hold
MaxPool == 4
\* number of consecutive starts of the process
MaxRuns == 2
\* SpecSelect: a category holds up to quota + Extra candidates
Extra == 1
\* SpecTranslate: length of the texts
MaxText == 2
\* SpecChunk: length of the texts, and the limits 1..MaxLimit
MaxChunkText == 5
MaxLimit == 3

-----------------------------------------------------------------------------
(* Configuration.                                                          *)

\* the categories, in the order collect_all and run visit them
categories_order == <<"tecnologia", "medicina", "colombia", "mundial">>

Cats == {categories_order[i] : i \in 1..Len(categories_order)}

\* the feeds of the model: one for three categories, two for `mundial`
Feeds == {"tc", "md", "co", "w1", "w2"}

NEWS_SOURCES ==
    [tecnologia |-> <<"tc">>, colombia |-> <<"co">>,
     mundial |-> <<"w1", "w2">>, medicina |-> <<"md">>]

quotas_for_today == [tecnologia |-> 8, medicina |-> 4, colombia |-> 3, mundial |-> 3]

\* feed.entries[:8]
EntriesPerFeed == 8

\* KW_BOOST, in tenths
KW_BOOST ==
    [apple |-> 22, ios |-> 22, iphone |-> 18, ipad |-> 16, mac |-> 14,
     swift |-> 20, xcode |-> 19, wwdc |-> 22, javascript |-> 20,
     typescript |-> 18, node |-> 18, react |-> 18, python |-> 20,
     django |-> 15, fastapi |-> 17, docker |-> 16, kubernetes |-> 16,
     github |-> 17, vscode |-> 16, ai |-> 18, machine_learning |-> 18,
     gemini |-> 16, gpt |-> 16, openai |-> 18, llm |-> 18]

\* the bias manual_score adds to `tecnologia`, in tenths
TechBias == 8

\* the base of manual_score, in tenths
BaseScore == 10

-----------------------------------------------------------------------------
(* Helpers.                                                                *)

Min(a, b) == IF a <= b THEN a ELSE b

Range(s) == {s[i] : i \in 1..Len(s)}

RECURSIVE SumSet(_, _)
SumSet(f, S) ==
    IF S = {} THEN 0
    ELSE LET x == CHOOSE y \in S : TRUE IN f[x] + SumSet(f, S \ {x})

\* sum(d.values())
SumValues(d) == SumSet(d, DOMAIN d)

\* sorted(s, key=K, reverse=True): stable, highest key first
SortedDesc(s, K(_)) ==
    LET ins(acc, x) ==
            LET p == Cardinality({i \in 1..Len(acc) : K(acc[i]) >= K(x)})
            IN  SubSeq(acc, 1, p) \o <<x>> \o SubSeq(acc, p + 1, Len(acc))
        f[n \in 0..Len(s)] == IF n = 0 THEN <<>> ELSE ins(f[n - 1], s[n])
    IN  f[Len(s)]

\* list.sort(key=K): stable, lowest key first
SortedAsc(s, K(_)) ==
    LET ins(acc, x) ==
            LET p == Cardinality({i \in 1..Len(acc) : K(acc[i]) <= K(x)})
            IN  SubSeq(acc, 1, p) \o <<x>> \o SubSeq(acc, p + 1, Len(acc))
        f[n \in 0..Len(s)] == IF n = 0 THEN <<>> ELSE ins(f[n - 1], s[n])
    IN  f[Len(s)]

-----------------------------------------------------------------------------
(* The feeds of the model.                                                 *)

\* the story a feed carries at position k: `w2` mirrors `w1`, and `co`
\* carries the stories of `w1` from its third entry on
StoryOf(f, k) ==
    CASE f = "tc" -> "t" \o ToString(k)
      [] f = "md" -> "m" \o ToString(k)
      [] f = "co" -> IF k <= 2 THEN "c" \o ToString(k) ELSE "w" \o ToString(k - 2)
      [] OTHER    -> "w" \o ToString(k)

\* entry k of feed f: the second entry of `co` has no title, the second of
\* `md` no link; images, keywords and the length of the text vary with the
\* position (`long`: the caption built from the entry is over 1024 long)
Entry(f, k) ==
    [title |-> IF f = "co" /\ k = 2 THEN "" ELSE StoryOf(f, k),
     link  |-> IF f = "md" /\ k = 2 THEN "" ELSE "u",
     img   |-> (k + (IF f \in {"md", "w1"} THEN 1 ELSE 0)) % 2 = 1,
     kws   |-> CASE k % 4 = 2 -> {"apple"}
                 [] k % 4 = 3 -> {"ai", "python"}
                 [] OTHER     -> {},
     long  |-> k % 3 = 0]

FeedOfLength(f, n) == [k \in 1..n |-> Entry(f, k)]

-----------------------------------------------------------------------------
(* Fingerprint and state store.                                            *)

\* article_uid: the digest of "title|link"
article_uid(a) == a.title \o "|" \o a.link

\* state_sent.json: it does not exist; it is empty; it is not JSON (a
\* truncated list is not); it is JSON of which set() cannot be made (a
\* number, null, a list of lists); it is JSON of which set() makes some other
\* set (an object, a string); it holds a JSON array of strings
FileKinds == {"missing", "empty", "corrupt", "scalar", "nonlist", "valid"}

\* set(json.loads(STATE_PATH.read_text() or "[]")), line 131: the set, or an
\* exception of json.loads or of set
ReadState ==
    [raised |-> file.kind \in {"corrupt", "scalar"},
     ids    |-> IF file.kind \in {"valid", "nonlist"} THEN file.ids ELSE {}]

\* load_state that reads nothing
load_state_Empty == [raised |-> FALSE, ids |-> {}]

\* load_state without its try/except
load_state_NoCatch ==
    IF file.kind = "missing" THEN [raised |-> FALSE, ids |-> {}] ELSE ReadState

\* load_state: the set in the file; the empty set when there is no file or
\* when reading it raised; `raised`: an exception leaves load_state
load_state ==
    IF file.kind = "missing" THEN [raised |-> FALSE, ids |-> {}]
    ELSE IF ReadState.raised THEN [raised |-> FALSE, ids |-> {}]
    ELSE [raised |-> FALSE, ids |-> ReadState.ids]

\* what write_text does: it writes the whole list, or it raises
WriteOutcomes == {"written", "refused"}

\* save_state: the file afterwards (an exception of write_text is caught)
save_state(ids, outcome) ==
    IF outcome = "written" THEN [kind |-> "valid", ids |-> ids] ELSE file

\* write_text is open(path, "w"), write, close: where the process can be
\* stopped inside save_state, and the file it leaves (json.dumps of a list
\* ends with its only closing bracket, so a part of it is not JSON)
StopPoints == {"opened", "partial", "closed"}

save_state_stopped(ids, point) ==
    CASE point = "opened"  -> [kind |-> "empty", ids |-> {}]
      [] point = "partial" -> [kind |-> "corrupt", ids |-> {}]
      [] OTHER             -> [kind |-> "valid", ids |-> ids]

-----------------------------------------------------------------------------
(* Collection.                                                             *)

\* the entries get_rss reads for a category: feed.entries[:8] of each feed
EntriesOf(category) ==
    LET srcs == NEWS_SOURCES[category]
        part[n \in 0..Len(srcs)] ==
            IF n = 0 THEN <<>>
            ELSE part[n - 1] \o
                 SubSeq(feeds[srcs[n]], 1, Min(Len(feeds[srcs[n]]), EntriesPerFeed))
    IN  part[Len(srcs)]

\* the article record get_rss builds from an entry
Article(entry, category, proc) ==
    [_i |-> Cardinality(proc), title |-> entry.title, link |-> entry.link,
     cat |-> category, img |-> entry.img, kws |-> entry.kws, long |-> entry.long]

\* get_rss without the test against sent_ids
get_rss_NoSentTest(category, proc) ==
    LET es == EntriesOf(category)
        step(st, e) ==
            LET a == Article(e, category, st.processed)
            IN  IF e.link = "" \/ e.title = "" THEN st
                ELSE IF article_uid(a) \in st.processed THEN st
                ELSE [arts |-> Append(st.arts, a),
                      processed |-> st.processed \cup {article_uid(a)}]
        f[n \in 0..Len(es)] ==
            IF n = 0 THEN [arts |-> <<>>, processed |-> proc] ELSE step(f[n - 1], es[n])
    IN  f[Len(es)]

\* get_rss without the test against self.processed
get_rss_NoProcessedTest(category, proc) ==
    LET es == EntriesOf(category)
        step(st, e) ==
            LET a == Article(e, category, st.processed)
            IN  IF e.link = "" \/ e.title = "" THEN st
                ELSE IF article_uid(a) \in sent_ids THEN st
                ELSE [arts |-> Append(st.arts, a),
                      processed |-> st.processed \cup {article_uid(a)}]
        f[n \in 0..Len(es)] ==
            IF n = 0 THEN [arts |-> <<>>, processed |-> proc] ELSE step(f[n - 1], es[n])
    IN  f[Len(es)]

\* get_rss(category), from self.processed = proc: the new articles and the
\* processed set afterwards
get_rss(category, proc) ==
    LET es == EntriesOf(category)
        step(st, e) ==
            LET a == Article(e, category, st.processed)
            IN  IF e.link = "" \/ e.title = "" THEN st
                ELSE IF article_uid(a) \in st.processed \/ article_uid(a) \in sent_ids
                     THEN st
                ELSE [arts |-> Append(st.arts, a),
                      processed |-> st.processed \cup {article_uid(a)}]
        f[n \in 0..Len(es)] ==
            IF n = 0 THEN [arts |-> <<>>, processed |-> proc] ELSE step(f[n - 1], es[n])
    IN  f[Len(es)]

\* collect_all: get_rss of each category of the mode, in order
collect_all ==
    LET cats == IF only_tech THEN <<"tecnologia">>
                ELSE IF only_medicine THEN <<"medicina">>
                ELSE <<"tecnologia", "medicina", "colombia", "mundial">>
        f[n \in 0..Len(cats)] ==
            IF n = 0 THEN [arts |-> <<>>, processed |-> processed]
            ELSE LET p == f[n - 1]
                     r == get_rss(cats[n], p.processed)
                 IN  [arts |-> p.arts \o r.arts, processed |-> r.processed]
    IN  f[Len(cats)]

-----------------------------------------------------------------------------
(* Ranking.                                                                *)

\* manual_score, in tenths
manual_score(a) ==
    BaseScore + SumSet(KW_BOOST, a.kws)
    + (IF a.cat = "tecnologia" THEN TechBias ELSE 0)

\* what self.model.generate_content answers to the ranking prompt: it raises,
\* its text is not JSON, or its text is a JSON list of objects
AIItems == [idx : 1..MaxPool, score : {10}, hasIdx : BOOLEAN, hasScore : BOOLEAN]

AIResponses ==
    {[kind |-> "raise", items |-> <<>>], [kind |-> "nonjson", items |-> <<>>],
     [kind |-> "list", items |-> <<>>]}
    \cup {[kind |-> "list", items |-> <<it>>] : it \in AIItems}

NoResponse == [kind |-> "raise", items |-> <<>>]

\* score_map.get(i, 0.0), in tenths: the last usable item of the list wins
score_map_get(items, i) ==
    LET hits == {n \in 1..Len(items) :
                    items[n].hasIdx /\ items[n].hasScore /\ items[n].idx - 1 = i}
    IN  IF hits = {} THEN 0
        ELSE 10 * items[CHOOSE n \in hits : \A m \in hits : m <= n].score

\* rank_with_gemini that sorts without reverse=True
rank_with_gemini_Ascending(articles, resp) ==
    IF ~gemini \/ articles = <<>> THEN SortedAsc(articles, manual_score)
    ELSE IF resp.kind # "list" THEN SortedAsc(articles, manual_score)
    ELSE LET key(a) == score_map_get(resp.items, a._i) + manual_score(a)
         IN  SortedAsc(articles, key)

\* rank_with_gemini
rank_with_gemini(articles, resp) ==
    IF ~gemini \/ articles = <<>> THEN SortedDesc(articles, manual_score)
    ELSE IF resp.kind # "list" THEN SortedDesc(articles, manual_score)
    ELSE LET key(a) == score_map_get(resp.items, a._i) + manual_score(a)
         IN  SortedDesc(articles, key)

-----------------------------------------------------------------------------
(* Selection.                                                              *)

CountCat(sel, cat) == Cardinality({i \in 1..Len(sel) : sel[i].cat = cat})

\* the quota walk that admits an item whose category is already full
QuotaWalk_NoCeiling(rk) ==
    LET q == quotas_for_today
        f[n \in 0..Len(rk)] ==
            IF n = 0 THEN [selected |-> <<>>, stop |-> FALSE]
            ELSE LET p == f[n - 1]
                     sel == Append(p.selected, rk[n])
                 IN  IF p.stop THEN p
                     ELSE [selected |-> sel, stop |-> Len(sel) >= SumValues(q)]
    IN  f[Len(rk)].selected

\* the quota walk that stops once it has looked at as many candidates as the
\* quotas sum to
QuotaWalk_StopAtVisited(rk) ==
    LET q == quotas_for_today
        f[n \in 0..Len(rk)] ==
            IF n = 0 THEN [selected |-> <<>>, counts |-> [k \in DOMAIN q |-> 0]]
            ELSE LET p == f[n - 1]
                     a == rk[n]
                     admit == p.counts[a.cat] < q[a.cat]
                 IN  IF n > SumValues(q) THEN p
                     ELSE [selected |-> IF admit THEN Append(p.selected, a)
                                        ELSE p.selected,
                           counts |-> IF admit THEN [p.counts EXCEPT ![a.cat] = @ + 1]
                                      ELSE p.counts]
    IN  f[Len(rk)].selected

\* select_top_by_quota, lines 514-522: walk the ranked list, admit an item
\* while its category is below its quota, stop when the counts reach the
\* sum of the quotas
QuotaWalk(rk) ==
    LET q == quotas_for_today
        f[n \in 0..Len(rk)] ==
            IF n = 0 THEN [selected |-> <<>>, counts |-> [k \in DOMAIN q |-> 0],
                           stop |-> FALSE]
            ELSE LET p == f[n - 1]
                     a == rk[n]
                     admit == p.counts[a.cat] < q[a.cat]
                     c2 == IF admit THEN [p.counts EXCEPT ![a.cat] = @ + 1]
                           ELSE p.counts
                 IN  IF p.stop THEN p
                     ELSE [selected |-> IF admit THEN Append(p.selected, a)
                                        ELSE p.selected,
                           counts |-> c2,
                           stop |-> SumValues(c2) >= SumValues(q)]
    IN  f[Len(rk)].selected

\* minimums of select_top_by_quota
MinPerCat == 1

\* select_top_by_quota, lines 523-537: a category with fewer selected items
\* than its minimum gets its first ranked candidate that is not selected yet
Backfill(rk, sel) ==
    LET cats == categories_order
        f[n \in 0..Len(cats)] ==
            IF n = 0 THEN sel
            ELSE LET cur == f[n - 1]
                     sel_ids == {article_uid(cur[i]) : i \in 1..Len(cur)}
                     cands == {i \in 1..Len(rk) :
                                 rk[i].cat = cats[n] /\ article_uid(rk[i]) \notin sel_ids}
                 IN  IF CountCat(cur, cats[n]) >= MinPerCat \/ cands = {} THEN cur
                     ELSE Append(cur, rk[CHOOSE i \in cands : \A j \in cands : i <= j])
    IN  f[Len(cats)]

\* order of select_top_by_quota
order(cat) == CHOOSE i \in 1..Len(categories_order) : categories_order[i] = cat

\* the selection that cuts the ranked list to the sum of the quotas first
SelectRanked_CutFirst(rk) ==
    LET top == SubSeq(rk, 1, Min(Len(rk), SumValues(quotas_for_today)))
        key(a) == order(a.cat)
    IN  SortedAsc(Backfill(top, QuotaWalk(top)), key)

\* select_top_by_quota, from the ranked list on
SelectRanked(rk) ==
    LET key(a) == order(a.cat)
    IN  SortedAsc(Backfill(rk, QuotaWalk(rk)), key)

\* select_top_by_quota
select_top_by_quota(articles, resp) ==
    IF articles = <<>> THEN <<>> ELSE SelectRanked(rank_with_gemini(articles, resp))

-----------------------------------------------------------------------------
(* Transport.                                                              *)

\* what requests.post does: r.ok, not r.ok, or it raises
Outcomes == {"ok", "not_ok", "exception"}

\* send_text without its try/except
send_text_NoCatch(outcome) ==
    [posted |-> creds, ok |-> creds /\ outcome = "ok",
     raised |-> creds /\ outcome = "exception"]

\* send_text: whether it posted, whether Telegram accepted, whether an
\* exception leaves it
send_text(outcome) ==
    [posted |-> creds, ok |-> creds /\ outcome = "ok", raised |-> FALSE]

\* send_photo: the same, `ok` is the value it returns
send_photo(outcome) ==
    [posted |-> creds, ok |-> creds /\ outcome = "ok", raised |-> FALSE]

\* send_with_link that sends the text whatever send_photo returned
send_with_link_AlwaysText(a, caption, photoOut, textOut) ==
    IF a.img
    THEN <<[fn |-> "send_photo", caption |-> caption, res |-> send_photo(photoOut)],
           [fn |-> "send_text", caption |-> caption, res |-> send_text(textOut)]>>
    ELSE <<[fn |-> "send_text", caption |-> caption, res |-> send_text(textOut)]>>

\* send_with_link: the calls it makes, in order, with what they gave;
\* `caption` is caption_full or caption_short
send_with_link(a, caption, photoOut, textOut) ==
    IF a.img
    THEN LET p == send_photo(photoOut)
         IN  <<[fn |-> "send_photo", caption |-> caption, res |-> p]>>
             \o (IF ~p.ok
                 THEN <<[fn |-> "send_text", caption |-> caption,
                         res |-> send_text(textOut)]>>
                 ELSE <<>>)
    ELSE <<[fn |-> "send_text", caption |-> caption, res |-> send_text(textOut)]>>

-----------------------------------------------------------------------------
(* The process.                                                            *)

NoSave == [called |-> FALSE, ids |-> {}, outcome |-> "refused"]

NoPrev == [ran |-> FALSE, saved |-> FALSE, withinQuota |-> FALSE]

\* the candidates run hands to select_top_by_quota (line 555)
Candidates == SelectSeq(all_articles, LAMBDA a : article_uid(a) \notin sent_ids)

\* cat_articles that holds the articles of the category last first
cat_articles_Reversed(cat) ==
    LET l == SelectSeq(selected, LAMBDA a : a.cat = cat)
    IN  [i \in 1..Len(l) |-> l[Len(l) + 1 - i]]

\* cat_articles of run's outer loop
cat_articles(cat) == SelectSeq(selected, LAMBDA a : a.cat = cat)

Msg(kind, cat, uid) == [kind |-> kind, cat |-> cat, uid |-> uid]

\* a send_text call of run for a message that is not an item: the message is
\* logged, and run goes on unless an exception leaves send_text
SendPlain(kind, cat, outcome, next) ==
    /\ log' = Append(log, Msg(kind, cat, ""))
    /\ IF send_text(outcome).raised
       THEN pc' = "raised" /\ exc' = "transport"
       ELSE pc' = next /\ exc' = exc

\* run that writes the state file after each article
FileAfterItem_Saved(ids) == save_state(ids, "written")

\* the state file after an article was marked as sent (line 629): the mark
\* is made in memory, the file is left as it is
FileAfterItem(ids) == file

InitProcess ==
    /\ runNo = 1
    /\ pc = "boot"
    /\ sent_ids = {}
    /\ processed = {}
    /\ all_articles = <<>>
    /\ selected = <<>>
    /\ ci = 1
    /\ ai = 1
    /\ log = <<>>
    /\ calls = <<>>
    /\ confirmed = {}
    /\ loaded = {}
    /\ savedArg = NoSave
    /\ exc = "none"
    /\ prev = NoPrev
    /\ startFile = file

Idle ==
    /\ ranked = <<>>
    /\ selOut = [done |-> FALSE, walk |-> <<>>, final |-> <<>>]
    /\ tr = [pc |-> "idle"]
    /\ scores = NoResponse
    /\ chunk = [pc |-> "idle"]
    /\ cap = [pc |-> "idle"]

Init ==
    /\ only_tech \in BOOLEAN
    /\ only_medicine \in BOOLEAN
    /\ ~(only_tech /\ only_medicine)
    /\ creds \in BOOLEAN
    /\ gemini \in BOOLEAN
    /\ \E n \in [Feeds -> 0..MaxPool] :
          /\ SumValues(n) <= MaxPool
          /\ feeds = [f \in Feeds |-> FeedOfLength(f, n[f])]
    /\ file = [kind |-> "missing", ids |-> {}]
    /\ InitProcess
    /\ Idle

\* NewsBot.__init__: sent_ids = load_state(), processed = set()
Construct ==
    /\ pc = "boot"
    /\ sent_ids' = load_state.ids
    /\ loaded' = load_state.ids
    /\ processed' = {}
    /\ IF load_state.raised
       THEN pc' = "raised" /\ exc' = "load"
       ELSE pc' = "header" /\ exc' = exc
    /\ UNCHANGED <<only_tech, only_medicine, creds, gemini, feeds, file, runNo,
                   all_articles, selected, ci, ai, log, calls, confirmed,
                   savedArg, prev, ranked, selOut, tr, startFile, scores, cap, chunk>>

\* run, lines 551-552: the header
SendHeader ==
    /\ pc = "header"
    /\ \E o \in Outcomes : SendPlain("header", "", o, "collect")
    /\ calls' = <<>>
    /\ UNCHANGED <<only_tech, only_medicine, creds, gemini, feeds, file, runNo,
                   sent_ids, processed, all_articles, selected, ci, ai,
                   confirmed, loaded, savedArg, prev, ranked, selOut, tr,
                   startFile, scores, cap, chunk>>

\* run, line 554: collect_all
Collect ==
    /\ pc = "collect"
    /\ all_articles' = collect_all.arts
    /\ processed' = collect_all.processed
    /\ pc' = "select"
    /\ UNCHANGED <<only_tech, only_medicine, creds, gemini, feeds, file, runNo,
                   sent_ids, selected, ci, ai, log, calls, confirmed, loaded,
                   savedArg, exc, prev, ranked, selOut, tr,
                   startFile, scores, cap, chunk>>

\* run, lines 555-558: the filter against sent_ids and select_top_by_quota
Select ==
    /\ pc = "select"
    /\ \E resp \in (IF gemini THEN AIResponses ELSE {NoResponse}) :
          /\ selected' = select_top_by_quota(Candidates, resp)
          /\ pc' = IF selected' = <<>> THEN "nonews" ELSE "cat"
    /\ ci' = 1
    /\ UNCHANGED <<only_tech, only_medicine, creds, gemini, feeds, file, runNo,
                   sent_ids, processed, all_articles, ai, log, calls, confirmed,
                   loaded, savedArg, exc, prev, ranked, selOut, tr,
                   startFile, scores, cap, chunk>>

\* run, lines 558-560: nothing selected, one message and return
NoNews ==
    /\ pc = "nonews"
    /\ \E o \in Outcomes : SendPlain("nonews", "", o, "done")
    /\ calls' = <<>>
    /\ UNCHANGED <<only_tech, only_medicine, creds, gemini, feeds, file, runNo,
                   sent_ids, processed, all_articles, selected, ci, ai,
                   confirmed, loaded, savedArg, prev, ranked, selOut, tr,
                   startFile, scores, cap, chunk>>

\* run, lines 566-569: a category without selected articles is passed over
CategorySkip ==
    /\ pc = "cat"
    /\ ci <= Len(categories_order)
    /\ cat_articles(categories_order[ci]) = <<>>
    /\ ci' = ci + 1
    /\ UNCHANGED <<only_tech, only_medicine, creds, gemini, feeds, file, runNo, pc,
                   sent_ids, processed, all_articles, selected, ai, log, calls,
                   confirmed, loaded, savedArg, exc, prev, ranked, selOut, tr,
                   startFile, scores, cap, chunk>>

\* run, line 572: the title of a category that has selected articles
CategoryHeader ==
    /\ pc = "cat"
    /\ ci <= Len(categories_order)
    /\ cat_articles(categories_order[ci]) # <<>>
    /\ \E o \in Outcomes : SendPlain("category", categories_order[ci], o, "item")
    /\ ai' = 1
    /\ calls' = <<>>
    /\ UNCHANGED <<only_tech, only_medicine, creds, gemini, feeds, file, runNo,
                   sent_ids, processed, all_articles, selected, ci,
                   confirmed, loaded, savedArg, prev, ranked, selOut, tr,
                   startFile, scores, cap, chunk>>

\* run, lines 574-629: one article: translation and summary give the caption
\* (caption_full, or caption_short when the full one is over 1024 long),
\* send_with_link sends it, the article is marked as sent
DeliverItem ==
    /\ pc = "item"
    /\ LET arts == cat_articles(categories_order[ci])
           a == arts[ai]
       IN  \E po \in Outcomes, to \in Outcomes :
              LET caption == [uid |-> article_uid(a), short |-> a.long]
                  cs == send_with_link(a, caption, po, to)
                  raised == \E i \in 1..Len(cs) : cs[i].res.raised
                  ok == \E i \in 1..Len(cs) : cs[i].res.ok
              IN  /\ calls' = cs
                  /\ log' = Append(log, Msg("item", a.cat, article_uid(a)))
                  /\ confirmed' = IF ok THEN confirmed \cup {article_uid(a)}
                                  ELSE confirmed
                  /\ file' = FileAfterItem(sent_ids \cup {article_uid(a)})
                  /\ IF raised
                     THEN /\ pc' = "raised"
                          /\ exc' = "transport"
                          /\ UNCHANGED <<sent_ids, ci, ai>>
                     ELSE /\ sent_ids' = sent_ids \cup {article_uid(a)}
                          /\ exc' = exc
                          /\ IF ai < Len(arts)
                             THEN ai' = ai + 1 /\ UNCHANGED <<pc, ci>>
                             ELSE ai' = 1 /\ ci' = ci + 1 /\ pc' = "cat"
    /\ UNCHANGED <<only_tech, only_medicine, creds, gemini, feeds, runNo,
                   processed, all_articles, selected, loaded, savedArg, prev,
                   ranked, selOut, tr,
                   startFile, scores, cap, chunk>>

\* run, line 632: the footer
Footer ==
    /\ pc = "cat"
    /\ ci > Len(categories_order)
    /\ \E o \in Outcomes : SendPlain("footer", "", o, "save")
    /\ calls' = <<>>
    /\ UNCHANGED <<only_tech, only_medicine, creds, gemini, feeds, file, runNo,
                   sent_ids, processed, all_articles, selected, ci, ai,
                   confirmed, loaded, savedArg, prev, ranked, selOut, tr,
                   startFile, scores, cap, chunk>>

\* run, line 635: save_state(self.sent_ids)
SaveState ==
    /\ pc = "save"
    /\ \E w \in WriteOutcomes :
          /\ file' = save_state(sent_ids, w)
          /\ savedArg' = [called |-> TRUE, ids |-> sent_ids, outcome |-> w]
    /\ pc' = "report"
    /\ UNCHANGED <<only_tech, only_medicine, creds, gemini, feeds, runNo, sent_ids,
                   processed, all_articles, selected, ci, ai, log, calls,
                   confirmed, loaded, exc, prev, ranked, selOut, tr,
                   startFile, scores, cap, chunk>>

\* run, lines 638-647: the report; reports.mkdir is outside any try, the
\* write of the report is inside one
Report ==
    /\ pc = "report"
    /\ \E mkdirOk \in BOOLEAN :
          IF mkdirOk THEN pc' = "done" /\ exc' = exc
          ELSE pc' = "raised" /\ exc' = "mkdir"
    /\ UNCHANGED <<only_tech, only_medicine, creds, gemini, feeds, file, runNo,
                   sent_ids, processed, all_articles, selected, ci, ai, log,
                   calls, confirmed, loaded, savedArg, prev, ranked, selOut, tr,
                   startFile, scores, cap, chunk>>

\* the process has ended and is started again, on the same feeds and with
\* the state file as the ended run left it
Restart ==
    /\ pc \in {"done", "raised", "killed"}
    /\ runNo < MaxRuns
    /\ runNo' = runNo + 1
    /\ prev' = [ran |-> TRUE,
                saved |-> savedArg.called /\ savedArg.outcome = "written",
                withinQuota |-> \A c \in Cats :
                                   CountCat(all_articles, c) <= quotas_for_today[c]]
    /\ pc' = "boot"
    /\ sent_ids' = {}
    /\ processed' = {}
    /\ all_articles' = <<>>
    /\ selected' = <<>>
    /\ ci' = 1
    /\ ai' = 1
    /\ log' = <<>>
    /\ calls' = <<>>
    /\ confirmed' = {}
    /\ loaded' = {}
    /\ savedArg' = NoSave
    /\ exc' = "none"
    /\ startFile' = file
    /\ UNCHANGED <<only_tech, only_medicine, creds, gemini, feeds, file, ranked,
                   selOut, tr, scores, cap, chunk>>

Next ==
    \/ Construct
    \/ SendHeader
    \/ Collect
    \/ Select
    \/ NoNews
    \/ CategorySkip
    \/ CategoryHeader
    \/ DeliverItem
    \/ Footer
    \/ SaveState
    \/ Report
    \/ Restart

Spec == Init /\ [][Next]_vars

-----------------------------------------------------------------------------
(* The process and its state file: any file at the start, and the process  *)
(* may be stopped (a crash, a kill) at any point of run.                   *)

InitialFiles ==
    {[kind |-> k, ids |-> {}] : k \in {"missing", "empty", "corrupt", "scalar", "valid"}}
    \cup {[kind |-> "nonlist", ids |-> {"k"}], [kind |-> "valid", ids |-> {"t1|u"}]}

\* the feeds that hold entries in SpecStore
StoreFeeds == {"tc", "w1"}

InitStore ==
    /\ only_tech = FALSE
    /\ only_medicine = FALSE
    /\ creds = TRUE
    /\ gemini = FALSE
    /\ \E n \in [Feeds -> 0..MaxPool] :
          /\ SumValues(n) <= MaxPool
          /\ \A f \in Feeds \ StoreFeeds : n[f] = 0
          /\ feeds = [f \in Feeds |-> FeedOfLength(f, n[f])]
    /\ file \in InitialFiles
    /\ InitProcess
    /\ Idle

\* the process is stopped where it is; inside save_state (pc = "save") the
\* file is left as write_text had it at that point
Kill ==
    /\ pc \in {"header", "collect", "select", "nonews", "cat", "item", "save", "report"}
    /\ pc' = "killed"
    /\ IF pc = "save"
       THEN \E point \in StopPoints \cup {"before"} :
               IF point = "before" THEN UNCHANGED <<file, savedArg>>
               ELSE /\ file' = save_state_stopped(sent_ids, point)
                    /\ savedArg' = [called |-> TRUE, ids |-> sent_ids, outcome |-> point]
       ELSE UNCHANGED <<file, savedArg>>
    /\ UNCHANGED <<only_tech, only_medicine, creds, gemini, feeds, runNo,
                   sent_ids, processed, all_articles, selected, ci, ai, log,
                   calls, confirmed, loaded, exc, prev, ranked, selOut, tr,
                   startFile, scores, cap, chunk>>

NextStore ==
    \/ Next
    \/ Kill

SpecStore == InitStore /\ [][NextStore]_vars

-----------------------------------------------------------------------------
(* Ranking and selection of the pool collected from the feeds, for every   *)
(* answer of the AI scorer with up to two entries.                         *)

RankResponses ==
    AIResponses \cup {[kind |-> "list", items |-> <<x, y>>] : x \in AIItems, y \in AIItems}

\* the feeds that hold entries in SpecRank
RankFeeds == {"tc", "co", "w1"}

InitRank ==
    /\ only_tech = FALSE
    /\ only_medicine = FALSE
    /\ creds = TRUE
    /\ gemini \in BOOLEAN
    /\ \E n \in [Feeds -> 0..MaxPool] :
          /\ SumValues(n) <= MaxPool
          /\ \A f \in Feeds \ RankFeeds : n[f] = 0
          /\ feeds = [f \in Feeds |-> FeedOfLength(f, n[f])]
    /\ file = [kind |-> "missing", ids |-> {}]
    /\ InitProcess
    /\ ranked = <<>>
    /\ selOut = [done |-> FALSE, walk |-> <<>>, final |-> <<>>]
    /\ tr = [pc |-> "idle"]
    /\ scores \in (IF gemini THEN RankResponses ELSE {NoResponse})
    /\ chunk = [pc |-> "idle"]
    /\ cap = [pc |-> "idle"]

\* run, lines 555-556, with the answer `scores` of the scorer: the ranked
\* list of rank_with_gemini is kept next to the selection
SelectScored ==
    /\ pc = "select"
    /\ ranked' = rank_with_gemini(Candidates, scores)
    /\ selected' = select_top_by_quota(Candidates, scores)
    /\ pc' = "ranked"
    /\ UNCHANGED <<only_tech, only_medicine, creds, gemini, feeds, file, runNo,
                   sent_ids, processed, all_articles, ci, ai, log, calls,
                   confirmed, loaded, savedArg, exc, prev, selOut, tr,
                   startFile, scores, cap, chunk>>

NextRank ==
    \/ Construct
    \/ SendHeader
    \/ Collect
    \/ SelectScored

SpecRank == InitRank /\ [][NextRank]_vars

-----------------------------------------------------------------------------
(* select_top_by_quota on ranked pools of every size around the quotas.    *)

CatTag == [tecnologia |-> "t", medicina |-> "m", colombia |-> "c", mundial |-> "w"]

\* candidate j of a category, the i-th article collected
PoolArticle(cat, j, i) ==
    [_i |-> i, title |-> CatTag[cat] \o ToString(j), link |-> "u", cat |-> cat,
     img |-> FALSE, kws |-> {}, long |-> FALSE]

\* the pool with n[c] candidates of category c, in collection order
Pool(n) ==
    LET cats == categories_order
        f[k \in 0..Len(cats)] ==
            IF k = 0 THEN <<>>
            ELSE LET p == f[k - 1]
                 IN  p \o [j \in 1..n[cats[k]] |-> PoolArticle(cats[k], j, Len(p) + j - 1)]
    IN  f[Len(cats)]

\* a ranking of the pool: the categories in the order `ord`, either a
\* category after the other or one candidate of each in turn
Ranking(pool, ord, mix) ==
    LET rankOf(a) == CHOOSE k \in 1..Len(ord) : ord[k] = a.cat
        posInCat(a) == Cardinality({i \in 1..Len(pool) :
                           pool[i].cat = a.cat /\ pool[i]._i <= a._i})
        key(a) == IF mix THEN 10 * posInCat(a) + rankOf(a)
                  ELSE 100 * rankOf(a) + posInCat(a)
    IN  SortedAsc(pool, key)

Rotation(r) == [k \in 1..Len(categories_order) |->
                  categories_order[((k - 1 + r) % Len(categories_order)) + 1]]

MaxQuota == CHOOSE m \in 0..100 :
                /\ \A c \in Cats : quotas_for_today[c] <= m
                /\ \E c \in Cats : quotas_for_today[c] = m

InitSelect ==
    /\ only_tech = FALSE
    /\ only_medicine = FALSE
    /\ creds = TRUE
    /\ gemini = FALSE
    /\ feeds = [f \in Feeds |-> <<>>]
    /\ file = [kind |-> "missing", ids |-> {}]
    /\ InitProcess
    /\ tr = [pc |-> "idle"]
    /\ scores = NoResponse
    /\ chunk = [pc |-> "idle"]
    /\ cap = [pc |-> "idle"]
    /\ \E n \in [Cats -> 0..(MaxQuota + Extra)], r \in 0..3, mix \in BOOLEAN :
          /\ \A c \in Cats : n[c] <= quotas_for_today[c] + Extra
          /\ ranked = Ranking(Pool(n), Rotation(r), mix)
    /\ selOut = [done |-> FALSE, walk |-> <<>>, final |-> <<>>]

\* select_top_by_quota applied to the ranked pool
ApplySelect ==
    /\ ~selOut.done
    /\ selOut' = [done |-> TRUE, walk |-> QuotaWalk(ranked),
                  final |-> SelectRanked(ranked)]
    /\ UNCHANGED <<only_tech, only_medicine, creds, gemini, feeds, file, runNo, pc,
                   sent_ids, processed, all_articles, selected, ci, ai, log,
                   calls, confirmed, loaded, savedArg, exc, prev, ranked, tr,
                   startFile, scores, cap, chunk>>

NextSelect == ApplySelect

SpecSelect == InitSelect /\ [][NextSelect]_vars

-----------------------------------------------------------------------------
(* Translation.                                                            *)

\* str.strip(), the blank being the only white space of the model
RECURSIVE lstrip(_)
lstrip(t) == IF t # <<>> /\ Head(t) = " " THEN lstrip(Tail(t)) ELSE t

RECURSIVE rstrip(_)
rstrip(t) ==
    IF t # <<>> /\ t[Len(t)] = " " THEN rstrip(SubSeq(t, 1, Len(t) - 1)) ELSE t

strip(t) == lstrip(rstrip(t))

\* " ".join(parts)
RECURSIVE Join(_)
Join(parts) ==
    IF parts = <<>> THEN <<>>
    ELSE IF Len(parts) = 1 THEN parts[1]
    ELSE parts[1] \o <<" ">> \o Join(Tail(parts))

\* re.split(r'(?<=[\.\!\?])\s+', text)
RECURSIVE SplitSentences(_)
SplitSentences(t) ==
    LET cuts == {i \in 2..Len(t) : t[i] = " " /\ t[i - 1] \in {".", "!", "?"}}
    IN  IF cuts = {} THEN <<t>>
        ELSE LET i == CHOOSE c \in cuts : \A d \in cuts : c <= d
             IN  <<SubSeq(t, 1, i - 1)>> \o SplitSentences(lstrip(SubSeq(t, i, Len(t))))

\* s.rfind(" ", 0, max_len): the last blank among the first max_len
\* characters, 0 when there is none (positions count from 1 here)
RFindBlank(s, max_len) ==
    LET hits == {i \in 1..Min(Len(s), max_len) : s[i] = " "}
    IN  IF hits = {} THEN 0 ELSE CHOOSE i \in hits : \A j \in hits : j <= i

\* split_for_mymemory, lines 261-266: a sentence longer than max_len is cut
\* at blanks; the pieces cut off and what is left
RECURSIVE CutLong(_, _)
CutLong(s, max_len) ==
    IF Len(s) <= max_len THEN [chunks |-> <<>>, rest |-> s]
    ELSE LET b == RFindBlank(s, max_len)
             cut == IF b = 0 THEN max_len ELSE b - 1
             r == CutLong(lstrip(SubSeq(s, cut + 1, Len(s))), max_len)
         IN  [chunks |-> <<SubSeq(s, 1, cut)>> \o r.chunks, rest |-> r.rest]

\* split_for_mymemory
split_for_mymemory(text0, max_len) ==
    LET text == strip(text0)
        ss == SplitSentences(text)
        join2(cur, s) == strip(cur \o <<" ">> \o s)
        f[n \in 0..Len(ss)] ==
            IF n = 0 THEN [chunks |-> <<>>, cur |-> <<>>]
            ELSE LET p == f[n - 1]
                     s == ss[n]
                     flushed == IF p.cur # <<>> THEN Append(p.chunks, p.cur)
                                ELSE p.chunks
                     c == CutLong(s, max_len)
                 IN  IF s = <<>> THEN p
                     ELSE IF Len(p.cur) + Len(s) + 1 <= max_len
                          THEN [chunks |-> p.chunks, cur |-> join2(p.cur, s)]
                     ELSE IF Len(s) <= max_len
                          THEN [chunks |-> flushed, cur |-> s]
                     ELSE [chunks |-> flushed \o c.chunks, cur |-> c.rest]
        last == f[Len(ss)]
    IN  IF Len(text) <= max_len THEN <<text>>
        ELSE IF last.cur # <<>> THEN Append(last.chunks, last.cur)
        ELSE last.chunks

\* max_len of the parts sent to MyMemory, and of the parts of a retry
MyMemoryMaxLen == 450
MyMemoryRetryLen == 300
\* `for _try in range(2)`
MyMemoryTries == 2
\* depth at which the recursion of mymemory_translate_en_es is cut (Python
\* raises RecursionError, which the try of the caller catches)
RecursionDepth == 2

\* mymemory_translate_en_es; tries[k] is what the k-th request of a part
\* gives: it raises, r.ok is false, or r.json() holds translatedText
RECURSIVE mymemory_translate_en_es(_, _, _)
mymemory_translate_en_es(text, tries, depth) ==
    LET parts == split_for_mymemory(text, MyMemoryMaxLen)
        \* the try loop of one part, from try k on: what is appended
        attempt[part \in Range(parts), k \in 1..(MyMemoryTries + 1)] ==
            IF k > MyMemoryTries THEN part
            ELSE LET o == tries[k]
                     sub == mymemory_translate_en_es(
                                Join(split_for_mymemory(part, MyMemoryRetryLen)),
                                tries, depth + 1)
                 IN  IF o.kind # "text" THEN attempt[part, k + 1]
                     ELSE IF o.text # <<>> THEN o.text
                     ELSE IF Len(part) > MyMemoryRetryLen
                          THEN IF sub.raised THEN attempt[part, k + 1] ELSE sub.text
                     ELSE attempt[part, k + 1]
    IN  IF depth > RecursionDepth THEN [raised |-> TRUE, text |-> <<>>]
        ELSE IF text = <<>> THEN [raised |-> FALSE, text |-> text]
        ELSE [raised |-> FALSE,
              text |-> strip(Join([i \in 1..Len(parts) |-> attempt[parts[i], 1]]))]

\* translate_force_es that passes over an empty answer of Argos
translate_force_es_SkipEmpty(text, argos, model, tries) ==
    IF text = <<>> THEN [text |-> text, by |-> "input"]
    ELSE IF argos.kind = "text" /\ argos.text # <<>>
         THEN [text |-> argos.text, by |-> "argos"]
    ELSE IF model.kind = "text" /\ strip(model.text) # <<>>
         THEN [text |-> strip(model.text), by |-> "gemini"]
    ELSE [text |-> mymemory_translate_en_es(text, tries, 0).text, by |-> "mymemory"]

\* translate_force_es: the text it returns and the branch that returned it;
\* argos and model are "none" (not configured), "raise", or "text"
translate_force_es(text, argos, model, tries) ==
    IF text = <<>> THEN [text |-> text, by |-> "input"]
    ELSE IF argos.kind = "text"
         THEN [text |-> argos.text, by |-> "argos"]
    ELSE IF model.kind = "text" /\ strip(model.text) # <<>>
         THEN [text |-> strip(model.text), by |-> "gemini"]
    ELSE [text |-> mymemory_translate_en_es(text, tries, 0).text, by |-> "mymemory"]

\* the texts of the model
Texts == UNION {[1..n -> {" ", "a"}] : n \in 0..MaxText}

\* what a provider may answer
Answers == {<<>>, <<" ">>, <<"x">>}

ProviderBehaviours ==
    {[kind |-> "none", text |-> <<>>], [kind |-> "raise", text |-> <<>>]}
    \cup {[kind |-> "text", text |-> a] : a \in Answers}

RequestOutcomes ==
    {[kind |-> "raise", text |-> <<>>], [kind |-> "not_ok", text |-> <<>>]}
    \cup {[kind |-> "text", text |-> a] : a \in Answers}

InitTranslate ==
    /\ only_tech = FALSE
    /\ only_medicine = FALSE
    /\ creds = TRUE
    /\ gemini \in BOOLEAN
    /\ feeds = [f \in Feeds |-> <<>>]
    /\ file = [kind |-> "missing", ids |-> {}]
    /\ InitProcess
    /\ ranked = <<>>
    /\ selOut = [done |-> FALSE, walk |-> <<>>, final |-> <<>>]
    /\ scores = NoResponse
    /\ chunk = [pc |-> "idle"]
    /\ cap = [pc |-> "idle"]
    /\ \E text \in Texts, argos \in ProviderBehaviours, model \in ProviderBehaviours,
          tries \in [1..MyMemoryTries -> RequestOutcomes] :
          /\ (model.kind = "none") = ~gemini
          /\ tr = [pc |-> "call", text |-> text, argos |-> argos, model |-> model,
                   tries |-> tries, out |-> [text |-> <<>>, by |-> "input"]]

\* a call of translate_force_es
Translate ==
    /\ tr.pc = "call"
    /\ tr' = [tr EXCEPT !.pc = "ret",
                        !.out = translate_force_es(tr.text, tr.argos, tr.model, tr.tries)]
    /\ UNCHANGED <<only_tech, only_medicine, creds, gemini, feeds, file, runNo, pc,
                   sent_ids, processed, all_articles, selected, ci, ai, log,
                   calls, confirmed, loaded, savedArg, exc, prev, ranked, selOut,
                   startFile, scores, cap, chunk>>

NextTranslate == Translate

SpecTranslate == InitTranslate /\ [][NextTranslate]_vars

-----------------------------------------------------------------------------
(* The caption of an item. A text is a sequence of runs [u, n, cut]: n     *)
(* times the unit u (a character, an HTML entity, a tag), followed by the  *)
(* first `cut` characters of one more u (0 unless a slice cut a unit).     *)

\* len() of a unit; a unit not listed is one character
UnitLen(u) ==
    CASE u = "&amp;"     -> 5
      [] u = "&quot;"    -> 6
      [] u = "%C3%A9"    -> 6
      [] u = "<b>"       -> 3
      [] u = "</b>"      -> 4
      [] u = "<a href=\"" -> 9
      [] u = "\">"       -> 2
      [] u = "[link] Leer la nota completa" -> 23
      [] u = "</a>"      -> 4
      [] OTHER           -> 1

Run(u, n) == [u |-> u, n |-> n, cut |-> 0]

\* len(text)
TextLen(t) ==
    LET f[k \in 0..Len(t)] ==
            IF k = 0 THEN 0
            ELSE LET p == f[k - 1] IN p + t[k].n * UnitLen(t[k].u) + t[k].cut
    IN  f[Len(t)]

\* text[:k]
Take(t, k) ==
    LET f[i \in 0..Len(t)] ==
            IF i = 0 THEN [out |-> <<>>, r |-> k]
            ELSE LET p == f[i - 1]
                     w == UnitLen(t[i].u)
                     l == t[i].n * w + t[i].cut
                     whole == Min(t[i].n, p.r \div w)
                     part == [u |-> t[i].u, n |-> whole, cut |-> p.r - whole * w]
                 IN  IF p.r = 0 THEN p
                     ELSE IF l <= p.r THEN [out |-> Append(p.out, t[i]), r |-> p.r - l]
                     ELSE [out |-> Append(p.out, part), r |-> 0]
    IN  f[Len(t)].out

\* text.rstrip(), the blank being the white space of the texts
RECURSIVE text_rstrip(_)
text_rstrip(t) ==
    IF t # <<>> /\ (t[Len(t)].u = " " \/ (t[Len(t)].n = 0 /\ t[Len(t)].cut = 0))
    THEN text_rstrip(SubSeq(t, 1, Len(t) - 1))
    ELSE t

\* html_escape: html.escape(text, quote=True)
html_escape(t) ==
    [i \in 1..Len(t) |->
        [t[i] EXCEPT !.u = CASE @ = "&"  -> "&amp;"
                             [] @ = "\"" -> "&quot;"
                             [] OTHER    -> @]]

\* url_safe: quote(url, safe=":/?&=%#@+.,-~")
url_safe(t) ==
    [i \in 1..Len(t) |-> [t[i] EXCEPT !.u = IF @ = "e_acute" THEN "%C3%A9" ELSE @]]

\* the lengths in run and send_photo
CaptionLimit == 1024
max_caption == 1000
\* summarize_extended returns at most this many characters
SummaryLimit == 900

\* link_html of run
link_html(url) ==
    <<Run("<a href=\"", 1)>> \o url
    \o <<Run("\">", 1), Run("[link] Leer la nota completa", 1), Run("</a>", 1)>>

\* f"<b>{title_h}</b>\n{resumen_h}\n{link_html}"
caption_text(title_h, resumen_h, link) ==
    <<Run("<b>", 1)>> \o title_h \o <<Run("</b>", 1), Run("\n", 1)>>
    \o resumen_h \o <<Run("\n", 1)>> \o link

\* the caption send_with_link sends: caption_full, or caption_short when
\* caption_full is longer than 1024
item_caption(title_es, resumen, url_raw) ==
    LET title_h == html_escape(title_es)
        resumen_h == html_escape(resumen)
        link == link_html(url_safe(url_raw))
        caption_full == caption_text(title_h, resumen_h, link)
        base_len == TextLen(<<Run("<b>", 1)>> \o title_h \o <<Run("</b>", 1), Run("\n", 1)>>)
                    + 1 + TextLen(link)
        resto == IF max_caption - base_len < 0 THEN 0 ELSE max_caption - base_len
        resumen_rec == html_escape(text_rstrip(Take(resumen, resto)))
    IN  IF TextLen(caption_full) <= CaptionLimit THEN caption_full
        ELSE caption_text(title_h, resumen_rec, link)

\* what a call of send_with_link posts: send_photo posts caption_html[:1024],
\* send_text posts its text as it is
payload(call) ==
    IF call.fn = "send_photo" THEN Take(call.caption, CaptionLimit) ELSE call.caption

\* the texts of the items of SpecCaption
TitleLens == {1, 60, 1100}
SummaryLens == {0, 300, SummaryLimit}
LinkLens == {30, 1200}

Summaries ==
    {<<Run(u, n)>> : u \in {"a", "&", "\"", " "}, n \in SummaryLens}
    \cup {<<Run("a", SummaryLimit - 200), Run(" ", 200)>>}

InitCaption ==
    /\ only_tech = FALSE
    /\ only_medicine = FALSE
    /\ creds = TRUE
    /\ gemini = FALSE
    /\ feeds = [f \in Feeds |-> <<>>]
    /\ file = [kind |-> "missing", ids |-> {}]
    /\ InitProcess
    /\ ranked = <<>>
    /\ selOut = [done |-> FALSE, walk |-> <<>>, final |-> <<>>]
    /\ tr = [pc |-> "idle"]
    /\ scores = NoResponse
    /\ chunk = [pc |-> "idle"]
    /\ \E tl \in TitleLens, resumen \in Summaries, ll \in LinkLens,
          lu \in {"u", "e_acute"}, img \in BOOLEAN :
          cap = [pc |-> "call", title |-> <<Run("a", tl)>>, resumen |-> resumen,
                 link |-> <<Run(lu, ll)>>, img |-> img, msgs |-> <<>>]

\* run, lines 592-626, for one item: the caption is built and send_with_link
\* sends it; msgs are the texts posted to the transport, in order
SendItem ==
    /\ cap.pc = "call"
    /\ \E po \in Outcomes, to \in Outcomes :
          LET caption == item_caption(cap.title, cap.resumen, cap.link)
              cs == send_with_link([img |-> cap.img], caption, po, to)
          IN  cap' = [cap EXCEPT
                        !.pc = "ret",
                        !.msgs = [i \in 1..Len(cs) |->
                                    [fn |-> cs[i].fn, text |-> payload(cs[i]),
                                     ok |-> cs[i].res.ok]]]
    /\ UNCHANGED <<only_tech, only_medicine, creds, gemini, feeds, file, runNo, pc,
                   sent_ids, processed, all_articles, selected, ci, ai, log,
                   calls, confirmed, loaded, savedArg, exc, prev, ranked, selOut,
                   tr, startFile, scores, chunk>>

NextCaption == SendItem

SpecCaption == InitCaption /\ [][NextCaption]_vars

-----------------------------------------------------------------------------
(* chunk_text. A text is a sequence of characters, "a" or "\n".            *)

\* the parts chunk_text is let to build before the model stops following it;
\* a call that returns builds at most one part per character
MaxParts == MaxChunkText + 1

ChunkTexts == UNION {[1..n -> {"a", "\n"}] : n \in 0..MaxChunkText}

\* t.rfind("\n", 0, limit), -1 when there is none (Python's positions,
\* from 0)
rfind_newline(t, limit) ==
    LET hits == {i \in 1..Min(Len(t), limit) : t[i] = "\n"}
    IN  IF hits = {} THEN -1 ELSE (CHOOSE i \in hits : \A j \in hits : j <= i) - 1

\* lines 115-117: where one iteration of the loop cuts t
cut_of(t, limit) ==
    IF rfind_newline(t, limit) = -1 THEN limit ELSE rfind_newline(t, limit)

InitChunk ==
    /\ only_tech = FALSE
    /\ only_medicine = FALSE
    /\ creds = TRUE
    /\ gemini = FALSE
    /\ feeds = [f \in Feeds |-> <<>>]
    /\ file = [kind |-> "missing", ids |-> {}]
    /\ InitProcess
    /\ ranked = <<>>
    /\ selOut = [done |-> FALSE, walk |-> <<>>, final |-> <<>>]
    /\ tr = [pc |-> "idle"]
    /\ scores = NoResponse
    /\ cap = [pc |-> "idle"]
    /\ \E text \in ChunkTexts, limit \in 1..MaxLimit :
          chunk = [pc |-> "loop", text |-> text, limit |-> limit, t |-> text,
                   parts |-> <<>>, before |-> Len(text) + 1]

\* chunk_text, lines 114-119: one iteration of `while len(t) > limit`;
\* `before` keeps the length t had when the iteration began
ChunkIterate ==
    /\ chunk.pc = "loop"
    /\ Len(chunk.t) > chunk.limit
    /\ Len(chunk.parts) < MaxParts
    /\ LET cut == cut_of(chunk.t, chunk.limit)
       IN  chunk' = [chunk EXCEPT
                       !.parts = Append(@, SubSeq(chunk.t, 1, cut)),
                       !.t = SubSeq(chunk.t, cut + 1, Len(chunk.t)),
                       !.before = Len(chunk.t)]
    /\ UNCHANGED <<only_tech, only_medicine, creds, gemini, feeds, file, runNo, pc,
                   sent_ids, processed, all_articles, selected, ci, ai, log,
                   calls, confirmed, loaded, savedArg, exc, prev, ranked, selOut,
                   tr, startFile, scores, cap>>

\* chunk_text, lines 120-122: the loop is left, what remains is the last part
ChunkReturn ==
    /\ chunk.pc = "loop"
    /\ Len(chunk.t) <= chunk.limit
    /\ chunk' = [chunk EXCEPT
                   !.pc = "ret",
                   !.parts = IF chunk.t # <<>> THEN Append(@, chunk.t) ELSE @]
    /\ UNCHANGED <<only_tech, only_medicine, creds, gemini, feeds, file, runNo, pc,
                   sent_ids, processed, all_articles, selected, ci, ai, log,
                   calls, confirmed, loaded, savedArg, exc, prev, ranked, selOut,
                   tr, startFile, scores, cap>>

NextChunk ==
    \/ ChunkIterate
    \/ ChunkReturn

SpecChunk == InitChunk /\ [][NextChunk]_vars

-----------------------------------------------------------------------------
(* Properties.                                                             *)

\* the fingerprints of the items run has handed to send_with_link so far
ItemsSent == {log[i].uid : i \in {j \in 1..Len(log) : log[j].kind = "item"}}

\* the sequence of those fingerprints, in the order of the calls
ItemLog == SelectSeq(log, LAMBDA m : m.kind = "item")

\* the article the last call of send_with_link was for
LastArticle ==
    CHOOSE a \in Range(selected) : article_uid(a) = ItemLog[Len(ItemLog)].uid

\* the valid entries of the feeds (title and link present)
FeedUids ==
    UNION {{article_uid(feeds[f][k]) :
               k \in {j \in 1..Len(feeds[f]) :
                         feeds[f][j].title # "" /\ feeds[f][j].link # ""}} :
           f \in Feeds}

\* C1 (as claimed): an item whose every delivery attempt failed is not added
\* to sent_ids and is not in the set given to save_state.
C1_FailedItemNotMarked ==
    \A u \in ItemsSent \ confirmed :
        /\ u \notin sent_ids
        /\ savedArg.called => u \notin savedArg.ids

\* C2 (as claimed): the set given to save_state is the set loaded at the
\* start together with the fingerprints of the items whose delivery the
\* transport confirmed, no more and no fewer.
C2_SavedIsLoadedPlusConfirmed ==
    savedArg.called => savedArg.ids = loaded \cup confirmed

\* C3 (as claimed): after a run that persisted its state, the next run on the
\* same feeds makes no delivery call for an item, whatever the size of the
\* pool.
C3_SecondRunDeliversNothing ==
    (prev.ran /\ prev.saved) => ItemsSent = {}

\* C3 (amended): after a run whose candidate pool held no more candidates of
\* any category than the quota of the category and that persisted its
\* state, the next run on the same feeds makes no delivery call for an item.
C3_SecondRunDeliversNothingWithinQuota ==
    (prev.ran /\ prev.saved /\ prev.withinQuota) => ItemsSent = {}

\* C3, its case: a first run delivered items and saved, and the second run
\* has ended with the `no news` message alone
C3_Witness ==
    /\ prev.ran /\ prev.saved /\ prev.withinQuota
    /\ pc = "done"
    /\ loaded # {}
    /\ \E i \in 1..Len(log) : log[i].kind = "nonews"

\* C4: a feed item whose fingerprint is in the set load_state returned is
\* not among the candidates collect_all returns, and no send_photo or
\* send_text call is made for it in that run.
C4_SentItemsExcluded ==
    \A u \in FeedUids \cap loaded :
        /\ \A i \in 1..Len(all_articles) : article_uid(all_articles[i]) # u
        /\ \A i \in 1..Len(selected) : article_uid(selected[i]) # u
        /\ u \notin ItemsSent
        /\ \A i \in 1..Len(calls) : calls[i].caption.uid # u

\* C4, its case: the feeds hold an item that was sent before, and the run
\* has delivered other items and ended
C4_Witness ==
    /\ FeedUids \cap loaded # {}
    /\ pc = "done"
    /\ ItemsSent # {}

\* C5: the selection holds at most quotas_for_today()[c] items of each
\* category c, and no more items than the sum of the quotas.
C5_QuotaCeiling ==
    selOut.done =>
        /\ \A c \in Cats : CountCat(selOut.final, c) <= quotas_for_today[c]
        /\ Len(selOut.final) <= SumValues(quotas_for_today)

\* C5, its case: a category has more candidates than its quota and is
\* selected up to the quota
C5_Witness ==
    /\ selOut.done
    /\ \E c \in Cats :
          /\ CountCat(ranked, c) > quotas_for_today[c]
          /\ CountCat(selOut.final, c) = quotas_for_today[c]

\* the first position of a candidate of category c in the ranked list
FirstRank(c) ==
    CHOOSE i \in 1..Len(ranked) :
        /\ ranked[i].cat = c
        /\ \A j \in 1..(i - 1) : ranked[j].cat # c

\* C6: a category with a quota above 0 and at least one candidate in the
\* pool has at least one item in the selection.
C6_MinimumBackfill ==
    selOut.done =>
        \A c \in Cats :
            (quotas_for_today[c] > 0 /\ CountCat(ranked, c) >= 1)
                => CountCat(selOut.final, c) >= 1

\* C6, its case: every candidate of a category ranks below as many
\* candidates of the other categories as the quotas sum to, and the
\* category is in the selection
C6_Witness ==
    /\ selOut.done
    /\ \E c \in Cats :
          /\ CountCat(ranked, c) >= 1
          /\ FirstRank(c) > SumValues(quotas_for_today)
          /\ CountCat(selOut.final, c) >= 1

\* the providers in their order, with the answer each gives to the text
\* (Gemini's answer is stripped, MyMemory's is that of its first request
\* that answers)
ProviderAnswers ==
    LET mm == {k \in 1..MyMemoryTries : tr.tries[k].kind = "text"}
    IN  <<IF tr.argos.kind = "text" THEN tr.argos.text ELSE <<>>,
          IF tr.model.kind = "text" THEN strip(tr.model.text) ELSE <<>>,
          IF mm = {} THEN <<>>
          ELSE strip(tr.tries[CHOOSE k \in mm : \A j \in mm : k <= j].text)>>

\* C7 (as claimed): translate_force_es returns the first non-empty answer in
\* the order Argos, Gemini, MyMemory; a provider that answers with the empty
\* string is passed over, the first one included.
C7_FirstNonEmptyAnswer ==
    (tr.pc = "ret" /\ tr.text # <<>>) =>
        \A k \in 1..3 :
            (/\ ProviderAnswers[k] # <<>>
             /\ \A j \in 1..(k - 1) : ProviderAnswers[j] = <<>>)
                => tr.out.text = ProviderAnswers[k]

\* C8 (as claimed): for a text that is not blank and any combination of
\* providers that are not configured, raise or answer with the empty string,
\* translate_force_es returns a non-empty text, the original one (without
\* the blanks around it) when no provider translated.
C8_NeverEmpty ==
    (tr.pc = "ret" /\ strip(tr.text) # <<>>) =>
        /\ tr.out.text # <<>>
        /\ (\A k \in 1..3 : ProviderAnswers[k] = <<>>) => tr.out.text = strip(tr.text)

\* C9: for an item with an image send_photo is called first, and send_text
\* is called, once and with the same caption, if and only if send_photo
\* returned False; for an item without an image send_text alone is called,
\* once; no item is handed to send_with_link twice.
C9_PhotoThenTextOnce ==
    /\ calls # <<>> =>
          LET last == LastArticle IN
          /\ \A i \in 1..Len(calls) : calls[i].caption.uid = article_uid(last)
          /\ IF last.img
             THEN /\ calls[1].fn = "send_photo"
                  /\ Len(calls) = (IF calls[1].res.ok THEN 1 ELSE 2)
                  /\ Len(calls) = 2 =>
                        /\ calls[2].fn = "send_text"
                        /\ calls[2].caption = calls[1].caption
             ELSE Len(calls) = 1 /\ calls[1].fn = "send_text"
    /\ LET il == ItemLog
       IN  \A i, j \in 1..Len(il) : il[i].uid = il[j].uid => i = j

\* C9, its case: send_photo failed for an item and the text that followed
\* was accepted
C9_Witness ==
    /\ Len(calls) = 2
    /\ ~calls[1].res.ok
    /\ calls[2].res.ok

\* the run is past its footer: every selected item was handed to
\* send_with_link, in order, the footer was sent, save_state was reached
RunWentThrough ==
    /\ [i \in 1..Len(ItemLog) |-> ItemLog[i].uid]
         = [i \in 1..Len(selected) |-> article_uid(selected[i])]
    /\ log[Len(log)].kind = "footer"
    /\ savedArg.called

\* C10: whatever the transport does, no exception of it leaves run; a run
\* with a selection goes on to its end, where every selected item was
\* attempted, the footer was sent and save_state was called.
C10_FailureIsolation ==
    /\ exc # "transport"
    /\ (pc \in {"done", "raised"} /\ selected # <<>>) => RunWentThrough

\* C10, its case: the transport failed for every message of a run that had
\* several items to deliver, and the run has ended
C10_Witness ==
    /\ pc = "done"
    /\ creds
    /\ Len(selected) >= 2
    /\ confirmed = {}
    /\ RunWentThrough

\* C11 (as claimed): whenever the process is stopped, inside save_state
\* included, the state file holds its complete contents of before the run
\* or the complete set given to save_state, never an empty or partly
\* written file.
C11_SaveAtomic ==
    \/ file = startFile
    \/ savedArg.called /\ file = [kind |-> "valid", ids |-> savedArg.ids]

\* C12 (as claimed): when a run is stopped before its end, the fingerprints
\* of the items whose delivery the transport confirmed are in the set the
\* next start of the process loads from the state file.
C12_DeliveredSurviveCrash ==
    pc = "killed" => confirmed \subseteq load_state.ids

\* C16: load_state never raises: whatever the state file holds, the process
\* gets past __init__ with a set, the empty one when the file is missing,
\* empty, not JSON or not something set() accepts, and the run goes on as
\* with no state: every valid feed entry is a candidate.
C16_LoadNeverFails ==
    /\ exc # "load"
    /\ (pc # "boot" /\ startFile.kind \in {"missing", "empty", "corrupt", "scalar"}) =>
          /\ loaded = {}
          /\ pc \in {"select", "cat", "item", "save", "report", "done"} =>
                {article_uid(all_articles[i]) : i \in 1..Len(all_articles)} = FeedUids
    /\ (pc # "boot" /\ startFile.kind \in {"nonlist", "valid"}) => loaded = startFile.ids

\* C16, its case: the state file was not JSON, and the run has delivered
\* the items of the feeds and ended
C16_Witness ==
    /\ startFile.kind = "corrupt"
    /\ pc = "done"
    /\ ItemsSent # {}
    /\ ItemsSent = FeedUids

\* C19: as long as save_state has not been called the state file is what it
\* was when the process started, wherever the run is stopped; what was added
\* to sent_ids in memory is not in it.
C19_AbortLeavesFile ==
    ~savedArg.called => file = startFile

\* C19, its case: the run was stopped between two items, after the first was
\* marked as sent, and the file still holds the set of before the run
C19_Witness ==
    /\ pc = "killed"
    /\ ~savedArg.called
    /\ Len(ItemLog) >= 1
    /\ Len(ItemLog) < Len(selected)
    /\ sent_ids # loaded
    /\ startFile = [kind |-> "valid", ids |-> {"t1|u"}]
    /\ file = startFile

\* C14 (as claimed): with TELEGRAM_BOT_TOKEN or TELEGRAM_CHAT_ID empty the
\* run stops before any work: no feed is collected, no item is prepared
\* (translated) for delivery, sent_ids stays as loaded and save_state is not
\* called.
C14_FailFastOnMissingCredentials ==
    ~creds =>
        /\ all_articles = <<>>
        /\ processed = {}
        /\ ItemsSent = {}
        /\ sent_ids = loaded
        /\ ~savedArg.called

\* the categories collect_all visits in the mode of the process
CollectedCats ==
    {c \in Cats : (only_tech => c = "tecnologia") /\ (only_medicine => c = "medicina")}

\* the fingerprints of the valid entries of the feeds of a category
CatUids(c) ==
    {article_uid(e) : e \in {x \in Range(EntriesOf(c)) : x.title # "" /\ x.link # ""}}

\* the first category, in the order of collection, a feed of which holds u
FirstCat(u) ==
    categories_order[CHOOSE k \in 1..Len(categories_order) :
        /\ categories_order[k] \in CollectedCats
        /\ u \in CatUids(categories_order[k])
        /\ \A j \in 1..(k - 1) :
              categories_order[j] \in CollectedCats => u \notin CatUids(categories_order[j])]

PoolUids == {article_uid(all_articles[i]) : i \in 1..Len(all_articles)}

\* C20: the pool collect_all returns holds every new fingerprint of the feeds
\* once, as the first feed that carries it gave it (so in the first category
\* collected), no fingerprint is handed to delivery twice in a run, and
\* collection fills self.processed with the pool's fingerprints and leaves
\* sent_ids as loaded.
C20_IntraRunDedup ==
    /\ \A i, j \in 1..Len(all_articles) :
          article_uid(all_articles[i]) = article_uid(all_articles[j]) => i = j
    /\ LET il == ItemLog
       IN  \A i, j \in 1..Len(il) : i # j => il[i].uid # il[j].uid
    /\ pc = "select" =>
          /\ \A i \in 1..Len(all_articles) :
                all_articles[i].cat = FirstCat(article_uid(all_articles[i]))
          /\ PoolUids = UNION {CatUids(c) : c \in CollectedCats} \ loaded
          /\ processed = PoolUids
          /\ sent_ids = loaded

\* C20, its case: a feed of `colombia` and a feed of `mundial` carry the same
\* story, the pool holds it once, under `colombia`, and the run has
\* delivered it and ended
C20_Witness ==
    /\ pc = "done"
    /\ \E u \in CatUids("colombia") \cap CatUids("mundial") :
          /\ CollectedCats = Cats
          /\ Cardinality({i \in 1..Len(all_articles) : article_uid(all_articles[i]) = u}) = 1
          /\ \E i \in 1..Len(all_articles) :
                article_uid(all_articles[i]) = u /\ all_articles[i].cat = "colombia"
          /\ u \in ItemsSent

\* the answer of the scorer is one the claim calls malformed
Malformed ==
    \/ scores.kind \in {"raise", "nonjson"}
    \/ \E n \in 1..Len(scores.items) : ~scores.items[n].hasIdx \/ ~scores.items[n].hasScore

\* C15 (as claimed): when the scorer raises, answers something that is not
\* JSON, or answers a list with an entry that lacks idx or score,
\* rank_with_gemini orders all candidates by manual_score alone.
C15_FallbackAllOrNothing ==
    (pc = "ranked" /\ gemini /\ Malformed) =>
        ranked = SortedDesc(all_articles, manual_score)

\* the score of a candidate: manual_score, plus the score the scorer gave to
\* its index when the scorer is configured and answered a list
Score(a) ==
    IF gemini /\ scores.kind = "list"
    THEN score_map_get(scores.items, a._i) + manual_score(a)
    ELSE manual_score(a)

\* a comes before b in ranked order: higher score, collection order on ties
Before(a, b) == Score(a) > Score(b) \/ (Score(a) = Score(b) /\ a._i < b._i)

\* the rank of a among the candidates of its category
RankInCat(a) ==
    1 + Cardinality({b \in Range(all_articles) : b.cat = a.cat /\ Before(b, a)})

\* C17: of each category c the selection holds exactly the first
\* min(quota[c], number of candidates of c) candidates of c in ranked order
\* (score descending, collection order on ties), in that order.
C17_SelectionResult ==
    pc = "ranked" =>
        /\ \A a \in Range(all_articles) :
              a \in Range(selected) <=> RankInCat(a) <= quotas_for_today[a.cat]
        /\ Range(selected) \subseteq Range(all_articles)
        /\ \A i, j \in 1..Len(selected) :
              (i < j /\ selected[i].cat = selected[j].cat)
                  => Before(selected[i], selected[j])
        /\ \A c \in Cats :
              CountCat(selected, c) = Min(quotas_for_today[c], CountCat(all_articles, c))

\* C17, its case: a category has more candidates than its quota, two of
\* them with the same score, the scorer raised the score of one candidate,
\* and one candidate of the category is left out
C17_Witness ==
    /\ pc = "ranked"
    /\ gemini /\ scores.kind = "list"
    /\ \E c \in Cats :
          /\ CountCat(all_articles, c) > quotas_for_today[c]
          /\ CountCat(selected, c) = quotas_for_today[c]
          /\ \E a, b \in Range(all_articles) :
                a # b /\ a.cat = c /\ b.cat = c /\ Score(a) = Score(b)
          /\ \E a \in Range(all_articles) :
                a.cat = c /\ Score(a) > manual_score(a) /\ a \in Range(selected)

\* the positions of the log that hold a message of the kind
LogPos(kind) == {i \in 1..Len(log) : log[i].kind = kind}

\* the selected articles of a category, in the order of the selection
SelectedOf(c) == SelectSeq(selected, LAMBDA a : a.cat = c)

\* C18: the run header is the first message and is sent once; the items are
\* sent in the order tecnologia, medicina, colombia, mundial and, within a
\* category, in ranked order; the header of a category is sent once, only for
\* a category with items, and before the items of the category; the footer
\* is the last message, after every selected item.
C18_DeliveryOrder ==
    LET items == LogPos("item")
        heads == LogPos("category")
    IN
    /\ log # <<>> => LogPos("header") = {1}
    /\ \A i, j \in items :
          i < j => order(log[i].cat) <= order(log[j].cat)
    /\ \A i, j \in heads : i # j => log[i].cat # log[j].cat
    /\ \A i \in heads : SelectedOf(log[i].cat) # <<>>
    /\ \A j \in items :
          \E i \in heads :
              /\ i < j
              /\ log[i].cat = log[j].cat
              /\ \A k \in (i + 1)..(j - 1) : log[k].kind = "item"
    /\ \A c \in Cats :
          LET sent == SelectSeq(log, LAMBDA m : m.kind = "item" /\ m.cat = c)
              sel == SelectedOf(c)
          IN  /\ Len(sent) <= Len(sel)
              /\ \A i \in 1..Len(sent) : sent[i].uid = article_uid(sel[i])
    /\ \A i \in LogPos("footer") :
          /\ i = Len(log)
          /\ Cardinality(items) = Len(selected)
    /\ (pc = "cat" /\ ci = 1 /\ Len(log) = 1) =>
          \E resp \in (IF gemini THEN AIResponses ELSE {NoResponse}) :
              LET rk == rank_with_gemini(Candidates, resp)
              IN  \A c \in Cats :
                     SelectedOf(c) = SelectSeq(rk, LAMBDA a : a.cat = c /\ a \in Range(selected))

\* C18, its case: a run has ended that delivered items of two categories,
\* one of them with two items whose ranked order is not the order of
\* collection, and sent its footer
C18_Witness ==
    /\ pc = "done"
    /\ Cardinality(LogPos("category")) >= 2
    /\ LogPos("footer") = {Len(log)}
    /\ \E i, j \in 1..Len(selected) :
          /\ i < j
          /\ selected[i].cat = selected[j].cat
          /\ selected[i]._i > selected[j]._i
    /\ Len(ItemLog) = Len(selected)

\* C13 (as claimed): whatever the lengths of the title, the summary and the
\* link of an item, the caption posted to sendPhoto is at most 1024
\* characters long and the text posted to sendMessage at most 4096.
C13_BlockSizeCompliance ==
    cap.pc = "ret" =>
        \A i \in 1..Len(cap.msgs) :
            /\ cap.msgs[i].fn = "send_photo" => TextLen(cap.msgs[i].text) <= 1024
            /\ cap.msgs[i].fn = "send_text" => TextLen(cap.msgs[i].text) <= 4096

\* C24: with the quotas of quotas_for_today the backfill of the minimums
\* adds no item: the selection after the backfill loop is the selection of
\* the quota walk, and the result is that selection sorted by category.
C24_BackfillAddsNothing ==
    selOut.done =>
        /\ Backfill(ranked, selOut.walk) = selOut.walk
        /\ Len(selOut.final) = Len(selOut.walk)
        /\ Range(selOut.final) = Range(selOut.walk)

\* C24, its case: the ranked list is longer than the sum of the quotas, the
\* only candidate of a category is its last element, and the walk has gone
\* on to it and admitted it
C24_Witness ==
    /\ selOut.done
    /\ Len(ranked) > SumValues(quotas_for_today)
    /\ CountCat(ranked, ranked[Len(ranked)].cat) = 1
    /\ selOut.walk # <<>>
    /\ selOut.walk[Len(selOut.walk)] = ranked[Len(ranked)]

\* the text holds the sequence of runs s, whole and in one piece
Contains(t, s) ==
    \E i \in 1..(Len(t) - Len(s) + 1) : SubSeq(t, i, i + Len(s) - 1) = s

\* C21 (as claimed): every message posted for an item, photo caption or
\* text, holds the whole title markup <b>title</b> and the whole link markup
\* <a href="url">...</a>; shortening an over-long caption touches the summary
\* alone, and neither the escaping of the shortened summary nor the cut at
\* 1024 in send_photo removes or truncates the link.
C21_TitleAndLinkKept ==
    cap.pc = "ret" =>
        \A i \in 1..Len(cap.msgs) :
            /\ Contains(cap.msgs[i].text,
                        <<Run("<b>", 1)>> \o html_escape(cap.title) \o <<Run("</b>", 1)>>)
            /\ Contains(cap.msgs[i].text, link_html(url_safe(cap.link)))

\* the parts built so far, one after the other
RECURSIVE Flatten(_)
Flatten(ps) == IF ps = <<>> THEN <<>> ELSE Head(ps) \o Flatten(Tail(ps))

\* C22 (as claimed): for a text longer than the limit every part is at most
\* `limit` long, every cut falls on a newline character of the text, never
\* inside a line, and the parts in order, with what is still to be cut, are
\* the text.
C22_CutsAtNewlinesOnly ==
    (chunk.pc \in {"loop", "ret"} /\ Len(chunk.text) > chunk.limit) =>
        /\ \A k \in 1..Len(chunk.parts) : Len(chunk.parts[k]) <= chunk.limit
        /\ \A k \in 1..Len(chunk.parts) :
              LET pos == Len(Flatten(SubSeq(chunk.parts, 1, k)))
              IN  pos < Len(chunk.text) => chunk.text[pos + 1] = "\n"
        /\ Flatten(chunk.parts) \o (IF chunk.pc = "loop" THEN chunk.t ELSE <<>>)
             = chunk.text

\* C23 (as claimed): every iteration of the loop of chunk_text leaves a
\* remainder shorter than the one it began with, also when the only newline
\* among the first `limit` characters is the first character, and no part
\* is empty.
C23_EveryIterationShortens ==
    chunk.pc \in {"loop", "ret"} =>
        /\ \A k \in 1..Len(chunk.parts) : chunk.parts[k] # <<>>
        /\ Len(chunk.t) < chunk.before

====
